---- MODULE Spec2Model ----
(***************************************************************************)
(* AI-FlightChat: the intent parser (parse_user_message), the location     *)
(* code resolver (to_iata), the Amadeus flight search tool (_auth, search) *)
(* and the orchestrator (Orchestrator.handle), as state machines.          *)
(*                                                                         *)
(* Text is a sequence of characters, each character a one-element string.  *)
(* Characters outside ASCII are written by code point: "u00DF" is the      *)
(* sharp s, "u0131" the dotless i, "u0130" the dotted capital I, "u0307"   *)
(* the combining dot above, "u00E7"/"u00C7" the c with cedilla; "LF" is    *)
(* the line feed.  Python's None is the value None below.                  *)
(***************************************************************************)
EXTENDS Integers, Sequences, FiniteSets, TLC

VARIABLES
    \* ---- the pure functions under test (SpecIata, SpecParse)
    fpc,        \* "none"; "input", "resolved", "again" (to_iata); "message", "parsed"
    arg,        \* the inputs of the call
    res,        \* the value returned
    res2,       \* to_iata applied to res again
    \* ---- Orchestrator.handle (Spec)
    pc,         \* position inside handle: "idle", "search", "generate", "translate", "done", "raised"
    user_text, want_translation, target_lang,
    intent, tool_results, tool_note, dest_label, base_reply, translated,
    search_args,\* the keyword arguments of self.flights.search
    gen_text,   \* what self.gpt.chat returned
    tr_input,   \* what self.claude.translate was given
    raised,     \* the exception that left handle, or None
    calls,      \* the external calls of this handle invocation, in order
    \* ---- AmadeusFlightTool (Spec)
    tpc,        \* position inside search: "idle", "auth", "auth_wait", "get", "ret", "exc"
    token, exp, \* self._token, self._exp
    now,        \* time.time()
    params,     \* the query of the flight-offers request
    data,       \* <<the offers of the flight-offers response>>, <<>> before it is there
    tool_out    \* [raised, value]: what search returned, or the exception it raised

vars == <<fpc, arg, res, res2, pc, user_text, want_translation, target_lang, intent,
          tool_results, tool_note, dest_label, base_reply, translated,
          search_args, gen_text, tr_input, raised, calls,
          tpc, token, exp, now, params, data, tool_out>>

fnVars == <<fpc, arg, res, res2>>
handleVars == <<pc, user_text, want_translation, target_lang, intent, tool_results, tool_note,
                dest_label, base_reply, translated, search_args, gen_text,
                tr_input, raised, calls>>
toolVars == <<tpc, token, exp, now, params, data, tool_out>>

None == <<"None">>

(***************************************************************************)
(* Characters and the str methods the code uses                            *)
(***************************************************************************)
Lo == <<"a","b","c","d","e","f","g","h","i","j","k","l","m",
        "n","o","p","q","r","s","t","u","v","w","x","y","z">>
Up == <<"A","B","C","D","E","F","G","H","I","J","K","L","M",
        "N","O","P","Q","R","S","T","U","V","W","X","Y","Z">>

InSeq(c, s) == \E i \in 1..Len(s) : s[i] = c
IndexOf(c, s) == CHOOSE i \in 1..Len(s) : s[i] = c

Digits == {"0","1","2","3","4","5","6","7","8","9"}
Whitespace == {" ", "LF"}
OtherLetters == {"u00DF", "u0131", "u0130", "u00E7", "u00C7"}

\* str.isalpha on one character; the combining dot u0307 is a mark, not a letter
isalphaChar(c) == InSeq(c, Lo) \/ InSeq(c, Up) \/ c \in OtherLetters

\* str.upper on one character: the sharp s becomes "SS", the dotless i "I"
upperChar(c) ==
    IF InSeq(c, Lo) THEN <<Up[IndexOf(c, Lo)]>>
    ELSE IF c = "u00DF" THEN <<"S", "S">>
    ELSE IF c = "u0131" THEN <<"I">>
    ELSE IF c = "u00E7" THEN <<"u00C7">>
    ELSE <<c>>

\* str.lower on one character: the dotted capital I becomes "i" + combining dot
lowerChar(c) ==
    IF InSeq(c, Up) THEN <<Lo[IndexOf(c, Up)]>>
    ELSE IF c = "u0130" THEN <<"i", "u0307">>
    ELSE IF c = "u00C7" THEN <<"u00E7">>
    ELSE <<c>>

RECURSIVE upper(_)
upper(s) == IF s = <<>> THEN <<>> ELSE upperChar(Head(s)) \o upper(Tail(s))

RECURSIVE lower(_)
lower(s) == IF s = <<>> THEN <<>> ELSE lowerChar(Head(s)) \o lower(Tail(s))

isalpha(s) == s # <<>> /\ \A i \in 1..Len(s) : isalphaChar(s[i])

SetMin(S) == CHOOSE x \in S : \A y \in S : x <= y
SetMax(S) == CHOOSE x \in S : \A y \in S : y <= x

strip(s) ==
    LET keep == {i \in 1..Len(s) : s[i] \notin Whitespace}
    IN  IF keep = {} THEN <<>> ELSE SubSeq(s, SetMin(keep), SetMax(keep))

\* needle in haystack, for str
Contains(hay, needle) ==
    \E i \in 1..(Len(hay) - Len(needle) + 1) :
        SubSeq(hay, i, i + Len(needle) - 1) = needle

MatchesAt(hay, i, needle) ==
    /\ i + Len(needle) - 1 <= Len(hay)
    /\ SubSeq(hay, i, i + Len(needle) - 1) = needle

(***************************************************************************)
(* Location/code resolver: _IATA_LUT, _IATA_TO_CITY, to_iata               *)
(***************************************************************************)
s_istanbul == <<"i","s","t","a","n","b","u","l">>
s_istanbul_dotless == <<"u0131","s","t","a","n","b","u","l">>
s_sabiha == <<"s","a","b","i","h","a">>
s_ankara == <<"a","n","k","a","r","a">>
s_izmir == <<"i","z","m","i","r">>
s_paris == <<"p","a","r","i","s">>
s_londra == <<"l","o","n","d","r","a">>
s_london == <<"l","o","n","d","o","n">>
s_berlin == <<"b","e","r","l","i","n">>
s_new_york == <<"n","e","w"," ","y","o","r","k">>

IST == <<"I","S","T">>
SAW == <<"S","A","W">>
ESB == <<"E","S","B">>
ADB == <<"A","D","B">>
PAR == <<"P","A","R">>
LON == <<"L","O","N">>
BER == <<"B","E","R">>
NYC == <<"N","Y","C">>

IATA_LUT ==
    << <<s_istanbul, IST>>, <<s_istanbul_dotless, IST>>, <<s_sabiha, SAW>>,
       <<s_ankara, ESB>>, <<s_izmir, ADB>>, <<s_paris, PAR>>, <<s_londra, LON>>,
       <<s_london, LON>>, <<s_berlin, BER>>, <<s_new_york, NYC>> >>

IATA_TO_CITY ==
    << <<LON, <<"London">> >>, <<IST, <<"Istanbul">> >>,
       <<SAW, <<"Istanbul (Sabiha Gokcen)">> >>, <<ESB, <<"Ankara">> >>,
       <<ADB, <<"Izmir">> >>, <<PAR, <<"Paris">> >>, <<BER, <<"Berlin">> >>,
       <<NYC, <<"New York">> >> >>

\* dict.get(key, default) on a table of <<key, value>> pairs
DictGet(table, key, default) ==
    IF \E i \in 1..Len(table) : table[i][1] = key
    THEN table[CHOOSE i \in 1..Len(table) : table[i][1] = key][2]
    ELSE default

HasKey(table, key) == \E i \in 1..Len(table) : table[i][1] = key

\* a plausible slip: a miss returns the name instead of the default
to_iata_echo(code_or_name, default) ==
    IF code_or_name = None \/ code_or_name = <<>> THEN default
    ELSE LET val == strip(code_or_name)
         IN  IF Len(val) = 3 /\ isalpha(val) THEN upper(val)
             ELSE DictGet(IATA_LUT, lower(val), val)

to_iata(code_or_name, default) ==
    IF code_or_name = None \/ code_or_name = <<>> THEN default
    ELSE LET val == strip(code_or_name)
         IN  IF Len(val) = 3 /\ isalpha(val) THEN upper(val)
             ELSE DictGet(IATA_LUT, lower(val), default)

(***************************************************************************)
(* Intent parser: parse_user_message                                       *)
(***************************************************************************)
\* the alternatives of the city pattern, in the order the pattern lists them
CityAlternatives ==
    <<s_istanbul, s_sabiha, s_ankara, s_izmir, s_paris, s_londra, s_london,
      s_berlin, s_new_york>>

\* re.findall: scan left to right, at each place the first alternative that
\* matches, and go on after the match (matches never overlap)
RECURSIVE FindAllFrom(_, _)
FindAllFrom(text, i) ==
    IF i > Len(text) THEN <<>>
    ELSE LET hits == {k \in 1..Len(CityAlternatives) :
                          MatchesAt(text, i, CityAlternatives[k])}
         IN  IF hits = {} THEN FindAllFrom(text, i + 1)
             ELSE LET hit == CityAlternatives[SetMin(hits)]
                  IN  <<hit>> \o FindAllFrom(text, i + Len(hit))

findall_cities(text) == FindAllFrom(text, 1)

\* [a-zçğıöşü]
DateLetter(c) ==
    InSeq(c, Lo) \/ c \in {"u00E7", "u011F", "u0131", "u00F6", "u015F", "u00FC"}

\* (\d{1,2} [letters]+) at place i with nd digits: can it start here?
TokenStarts(text, i, nd) ==
    /\ i + nd + 1 <= Len(text)
    /\ \A k \in i..(i + nd - 1) : text[k] \in Digits
    /\ text[i + nd] = " "
    /\ DateLetter(text[i + nd + 1])

\* the place the greedy letter run that starts at j ends
LettersEnd(text, j) ==
    SetMax({e \in j..Len(text) : \A k \in j..e : DateLetter(text[k])})

\* the last place of the group matched at i, 0 when none matches there
TokenEnd(text, i) ==
    IF TokenStarts(text, i, 2) THEN LettersEnd(text, i + 3)
    ELSE IF TokenStarts(text, i, 1) THEN LettersEnd(text, i + 2)
    ELSE 0

\* re.search of (group 1).*?(group 2): the leftmost start of group 1 that has a
\* group 2 after it with no line feed in between ("." does not match it), and
\* the nearest such group 2.  <<>> when the pattern does not match.
search_range(text) ==
    LET groups == {i \in 1..Len(text) : TokenEnd(text, i) > 0}
        ok(i, j) == /\ j > TokenEnd(text, i)
                    /\ \A k \in (TokenEnd(text, i) + 1)..(j - 1) : text[k] # "LF"
        starts == {i \in groups : \E j \in groups : ok(i, j)}
    IN  IF starts = {} THEN <<>>
        ELSE LET i == SetMin(starts)
                 j == SetMin({jj \in groups : ok(i, jj)})
             IN  <<SubSeq(text, i, TokenEnd(text, i)), SubSeq(text, j, TokenEnd(text, j))>>

uc == <<"u", "u00E7">>
ucak == <<"u", "u00E7", "a", "k">>
flight == <<"f","l","i","g","h","t">>
bilet == <<"b","i","l","e","t">>
fly == <<"f","l","y">>
keywords == <<uc, ucak, flight, bilet, fly>>

has_keyword(text) == \E k \in 1..Len(keywords) : Contains(text, keywords[k])

EUR == <<"E","U","R">>

ParsedIntent(intent_, origin, destination, date_from, date_to, adults, currency) ==
    [intent |-> intent_, origin |-> origin, destination |-> destination,
     date_from |-> date_from, date_to |-> date_to, adults |-> adults,
     currency |-> currency]

\* Optional[dt.date]: a date is a day number from 1 on, NoDate is Python's None
NoDate == 0

Chitchat == ParsedIntent("chitchat", None, None, NoDate, NoDate, 1, EUR)

\* a plausible slip: the keyword alone makes a flight search
parse_user_message_nocity(msg, dp) ==
    LET text == strip(IF msg = None THEN <<>> ELSE msg)
        lower_ == lower(text)
        cities == findall_cities(lower_)
        origin == IF Len(cities) >= 2 THEN cities[1] ELSE None
        destination == IF Len(cities) >= 2 THEN cities[2]
                       ELSE IF Len(cities) = 1 THEN cities[1] ELSE None
        rng == search_range(lower_)
    IN  IF has_keyword(lower_)
        THEN ParsedIntent("flight_search", origin, destination,
                          IF rng # <<>> THEN dp.p1 ELSE dp.d,
                          IF rng # <<>> THEN dp.p2 ELSE NoDate, 1, EUR)
        ELSE Chitchat

\* a plausible slip: a single city taken as the origin
parse_user_message_swapped(msg, dp) ==
    LET text == strip(IF msg = None THEN <<>> ELSE msg)
        lower_ == lower(text)
        cities == findall_cities(lower_)
        origin == IF Len(cities) >= 1 THEN cities[1] ELSE None
        destination == IF Len(cities) >= 2 THEN cities[2] ELSE None
        rng == search_range(lower_)
    IN  IF has_keyword(lower_) /\ (destination \notin {None, <<>>} \/ origin \notin {None, <<>>})
        THEN ParsedIntent("flight_search", origin, destination,
                          IF rng # <<>> THEN dp.p1 ELSE dp.d,
                          IF rng # <<>> THEN dp.p2 ELSE NoDate, 1, EUR)
        ELSE Chitchat

\* dp is what dateparser.parse answers: dp.p1 and dp.p2 for the two halves of a
\* range, dp.d for the whole message; each a date (a day number) or NoDate
parse_user_message(msg, dp) ==
    LET text == strip(IF msg = None THEN <<>> ELSE msg)
        lower_ == lower(text)
        cities == findall_cities(lower_)
        origin == IF Len(cities) >= 2 THEN cities[1] ELSE None
        destination == IF Len(cities) >= 2 THEN cities[2]
                       ELSE IF Len(cities) = 1 THEN cities[1] ELSE None
        rng == search_range(lower_)
        date_from == IF rng # <<>> THEN dp.p1 ELSE dp.d
        date_to == IF rng # <<>> THEN dp.p2 ELSE NoDate
    IN  IF has_keyword(lower_) /\ (destination \notin {None, <<>>} \/ origin \notin {None, <<>>})
        THEN ParsedIntent("flight_search", origin, destination, date_from, date_to, 1, EUR)
        ELSE Chitchat

\* the answers dateparser can give for a message: one answer per parsed string
DateAnswers(msg, dates) ==
    LET rng == search_range(lower(strip(IF msg = None THEN <<>> ELSE msg)))
    IN  {dp \in [p1 : dates \cup {NoDate}, p2 : dates \cup {NoDate}, d : dates \cup {NoDate}] :
            /\ rng # <<>> => (dp.d = NoDate /\ (rng[1] = rng[2] => dp.p1 = dp.p2))
            /\ rng = <<>> => (dp.p1 = NoDate /\ dp.p2 = NoDate)}

(***************************************************************************)
(* The state before anything runs                                          *)
(***************************************************************************)
FnIdle == fpc = "none" /\ arg = None /\ res = None /\ res2 = None

\* handle's locals before they are assigned
NoIntent == ParsedIntent("", None, None, NoDate, NoDate, 0, <<>>)
NoArgs == [origin |-> None, destination |-> None, date_from |-> NoDate,
           date_to |-> NoDate, adults |-> 0, currency |-> <<>>]

\* no flight-offers request was built
NoParams == [originLocationCode |-> None, destinationLocationCode |-> None,
             departureDate |-> NoDate, returnDate |-> NoDate, adults |-> 0,
             currencyCode |-> <<>>, max |-> 0]

\* search has neither returned nor raised
NoOut == [raised |-> FALSE, value |-> <<>>]

HandleIdle ==
    /\ pc = "idle" /\ user_text = None /\ want_translation = FALSE /\ target_lang = "en"
    /\ intent = NoIntent /\ tool_results = <<>> /\ tool_note = None
    /\ dest_label = None /\ base_reply = None /\ translated = None
    /\ search_args = NoArgs /\ gen_text = None /\ tr_input = None
    /\ raised = None /\ calls = <<>>

\* AmadeusFlightTool.__init__: no token, expiry 0
ToolInit ==
    /\ tpc = "idle" /\ token = None /\ exp = 0
    /\ now = 0 /\ params = NoParams /\ data = <<>> /\ tool_out = NoOut

\* all the sequences over S of length at most n
Words(S, n) == UNION {[1..k -> S] : k \in 0..n}

RECURSIVE Flatten(_)
Flatten(ss) == IF ss = <<>> THEN <<>> ELSE Head(ss) \o Flatten(Tail(ss))

(***************************************************************************)
(* SpecIata: to_iata on every name up to MaxNameLen characters             *)
(***************************************************************************)
MaxNameLen == 4

IataAlphabet == {"a", "S", "t", "u00DF", " ", "1"}

NamedInputs ==
    { <<"P","a","r","i","s">>, <<" ","l","o","n","d","o","n"," ">>, s_new_york,
      s_istanbul_dotless, <<"u0130","s","t","a","n","b","u","l">>,
      <<"I","S","T","A","N","B","U","L">>, <<"r","o","m","a">>, <<" ","I","S","T","LF">> }

IataInputs == {None} \cup Words(IataAlphabet, MaxNameLen) \cup NamedInputs

Defaults == {IST, LON, <<>>}

InitIata ==
    /\ fpc = "input" /\ res = None /\ res2 = None
    /\ arg \in [name : IataInputs, default : Defaults]
    /\ HandleIdle /\ ToolInit

CallToIata ==
    /\ fpc = "input"
    /\ res' = to_iata(arg.name, arg.default)
    /\ fpc' = "resolved"
    /\ UNCHANGED <<arg, res2, handleVars, toolVars>>

\* the result resolved once more, with any default
CallToIataAgain ==
    /\ fpc = "resolved"
    /\ \E x \in Defaults : res2' = to_iata(res, x)
    /\ fpc' = "again"
    /\ UNCHANGED <<arg, res, handleVars, toolVars>>

NextIata == CallToIata \/ CallToIataAgain

SpecIata == InitIata /\ [][NextIata]_vars

(***************************************************************************)
(* SpecParse: parse_user_message on every message of at most MaxChunks     *)
(* pieces of text                                                          *)
(***************************************************************************)
MaxChunks == 3

Chunks ==
    { <<"P","a","r","i","s">>, <<"a","b","i","h","a">>, <<" ","l","o","n","d","o","n">>,
      <<"u0130","s","t","a","n","b","u","l">>, <<"f","l","y"," ">>, <<"u","u00E7"," ">>,
      <<"h","e","l","l","o"," ">>, <<"1","5"," ","e","y","l","u","l">>,
      <<" ","3"," ","m","a","y">>, <<"LF">> }

ParseInputs == {None} \cup {Flatten(cs) : cs \in Words(Chunks, MaxChunks)}

\* the days dateparser can answer, as day numbers: one before and one after the
\* default departure day (today + 7)
Dates == {3, 9}

InitParse ==
    /\ fpc = "message" /\ res = None /\ res2 = None
    /\ arg \in [msg : ParseInputs]
    /\ HandleIdle /\ ToolInit

CallParse ==
    /\ fpc = "message"
    /\ \E dp \in DateAnswers(arg.msg, Dates) :
           res' = [dp |-> dp, out |-> parse_user_message(arg.msg, dp)]
    /\ fpc' = "parsed"
    /\ UNCHANGED <<arg, res2, handleVars, toolVars>>

NextParse == CallParse

SpecParse == InitParse /\ [][NextParse]_vars

(***************************************************************************)
(* Claims about parse_user_message (SpecParse)                             *)
(***************************************************************************)
ParseCalled == fpc = "parsed"

\* the message as the parser reads it, lower-cased
LowerMsg == lower(IF arg.msg = None THEN <<>> ELSE arg.msg)

\* every place a city keyword occurs in the text: <<start, city>>
CityOccurrences(text) ==
    {o \in (1..Len(text)) \X {CityAlternatives[k] : k \in 1..Len(CityAlternatives)} :
        MatchesAt(text, o[1], o[2])}

\* C3: the intent is flight_search exactly when the lower-cased message holds a
\* flight keyword and a city keyword; otherwise the result is chitchat with
\* origin, destination, date_from and date_to unset, whatever was extracted.
C3_IntentIffKeywordAndCity ==
    ParseCalled =>
        LET flightish == /\ \E k \in 1..Len(keywords) : Contains(LowerMsg, keywords[k])
                         /\ \E k \in 1..Len(CityAlternatives) :
                                Contains(LowerMsg, CityAlternatives[k])
        IN  /\ (res.out.intent = "flight_search") <=> flightish
            /\ ~flightish =>
                   /\ res.out.intent = "chitchat"
                   /\ res.out.origin = None /\ res.out.destination = None
                   /\ res.out.date_from = NoDate /\ res.out.date_to = NoDate

\* a chitchat result although a city and a date were extracted
C3_Witness ==
    /\ ParseCalled
    /\ res.out.intent = "chitchat"
    /\ CityOccurrences(LowerMsg) # {}
    /\ res.dp.d # NoDate
    /\ res.out.date_from = NoDate

\* C4: with a flight keyword, the first match in scan order (the leftmost
\* occurrence of a city) and the second match (the leftmost occurrence that starts
\* after the first ended) decide the fields: one match only gives destination =
\* that city and origin unset; two or more give origin = first, destination = second.
C4_OneCityIsDestination ==
    (ParseCalled /\ \E k \in 1..Len(keywords) : Contains(LowerMsg, keywords[k])) =>
        LET occ == CityOccurrences(LowerMsg)
            first == CHOOSE o \in occ : \A q \in occ : o[1] <= q[1]
            rest == {o \in occ : o[1] >= first[1] + Len(first[2])}
            second == CHOOSE o \in rest : \A q \in rest : o[1] <= q[1]
        IN  /\ (occ # {} /\ rest = {}) =>
                   /\ res.out.intent = "flight_search"
                   /\ res.out.destination = first[2]
                   /\ res.out.origin = None
            /\ (occ # {} /\ rest # {}) =>
                   /\ res.out.intent = "flight_search"
                   /\ res.out.origin = first[2]
                   /\ res.out.destination = second[2]

\* a flight search for a message with exactly one city in it
C4_Witness ==
    /\ ParseCalled
    /\ Cardinality(CityOccurrences(LowerMsg)) = 1
    /\ res.out.intent = "flight_search"
    /\ res.out.origin = None
    /\ res.out.destination = s_paris

(***************************************************************************)
(* Claims about to_iata (SpecIata)                                         *)
(***************************************************************************)
IataCalled == fpc \in {"resolved", "again"}

\* C5: on an input of exactly 3 alphabetic characters to_iata returns the
\* upper-cased input whatever the default, and resolving that result again, with
\* any default, returns the same code.
C5_IdempotentOnThreeLetters ==
    (IataCalled /\ arg.name # None /\ Len(arg.name) = 3 /\ isalpha(arg.name)) =>
        /\ res = upper(arg.name)
        /\ fpc = "again" => res2 = res

\* C6 as stated: every name that is not an entry of the table (looked up as the
\* code looks it up, stripped and lower-cased), the absent and the empty name
\* included, resolves to the default.
C6_MissReturnsDefault ==
    (IataCalled /\ (arg.name = None \/ ~HasKey(IATA_LUT, lower(strip(arg.name))))) =>
        res = arg.default

\* C6 amended: the same for every name whose stripped form is not 3 letters.
C6_MissReturnsDefaultUnlessCode ==
    (IataCalled /\ (\/ arg.name = None
                    \/ /\ ~HasKey(IATA_LUT, lower(strip(arg.name)))
                       /\ ~(Len(strip(arg.name)) = 3 /\ isalpha(strip(arg.name))))) =>
        res = arg.default

\* an unknown name of four letters resolved to the default
C6_Witness ==
    /\ IataCalled
    /\ arg.name = <<"r","o","m","a">>
    /\ arg.default = LON
    /\ res = LON

(***************************************************************************)
(* AmadeusFlightTool: _auth and search                                     *)
(***************************************************************************)
AuthMargin == 60
DefaultExpiresIn == 1800

\* the clock moves in steps of TickSeconds up to MaxClock
TickSeconds == 30
MaxClock == 120

\* at most MaxOffers offers in one upstream response
MaxOffers == 2

Falsy(x) == x = None \/ x = <<>>

\* the access tokens the provider hands out
Tokens == {<<"tokA">>, <<"tokB">>}

\* expires_in of the token response; None when the key is missing
ExpiresInChoices == {90, 120}

\* line 14: the cached token is used while the clock is short of expiry - 60
TokenFresh(tok, expiry, t) == ~Falsy(tok) /\ t < expiry - AuthMargin

\* str.split(sep) for a one-character separator
RECURSIVE split(_, _)
split(s, sep) ==
    IF ~InSeq(sep, s) THEN <<s>>
    ELSE LET first == SetMin({k \in 1..Len(s) : s[k] = sep})
         IN  <<SubSeq(s, 1, first - 1)>> \o split(SubSeq(s, first + 1, Len(s)), sep)

\* s[:n]
Prefix(s, n) == SubSeq(s, 1, IF Len(s) < n THEN Len(s) ELSE n)

\* str(x) inside an f-string: None prints as "None"
Str(x) == IF x = None THEN <<"N","o","n","e">> ELSE x

\* segments of the sample offers
SegA == [departure |-> [at |-> <<"1","1","-","1","3","T","0","9",":","1","5",":","0","0">>,
                        iataCode |-> IST],
         arrival |-> [at |-> <<"1","1","-","1","3","T","1","1",":","4","0",":","0","0">>,
                      iataCode |-> <<"F","R","A">>],
         carrierCode |-> <<"T","K">>]
SegB == [departure |-> [at |-> <<"1","1","-","1","3","T","1","3",":","0","5",":","0","0">>,
                        iataCode |-> <<"F","R","A">>],
         arrival |-> [at |-> <<"1","1","-","1","3","T","1","4",":","0","0",":","0","0">>,
                      iataCode |-> LON],
         carrierCode |-> <<"L","H">>]
SegC == [departure |-> [at |-> <<"1","1","-","2","0","T","1","8",":","3","0",":","0","0">>,
                        iataCode |-> LON],
         arrival |-> [at |-> <<"1","1","-","2","1","T","0","0",":","1","0",":","0","0">>,
                      iataCode |-> IST],
         carrierCode |-> None]

\* the offers an upstream response is made of: an offer is its itineraries (each
\* a sequence of segments; <<>> also stands for a missing "itineraries" key) and
\* its price.grandTotal (None when missing).  The segments carry every key
\* lines 56-65 read, so a row never fails over a missing key.
OfferNoItinerary == [itineraries |-> <<>>, grandTotal |-> <<"1","0">>]
OfferEmptySegments == [itineraries |-> << <<>> >>, grandTotal |-> <<"2","0">>]
OfferConnecting == [itineraries |-> << <<SegA, SegB>>, <<SegC>> >>, grandTotal |-> <<"3","0">>]
OfferDirect == [itineraries |-> << <<SegC>> >>, grandTotal |-> None]

RawOffers == {OfferNoItinerary, OfferEmptySegments, OfferConnecting, OfferDirect}

RawResponses == Words(RawOffers, MaxOffers)

IndexError == <<"IndexError: list index out of range">>

Returned(rows) == [raised |-> FALSE, value |-> rows]
Raised(e) == [raised |-> TRUE, value |-> e]

\* lines 55-69: the row of one offer that has itineraries
Row(offer, currency) ==
    LET first_leg == offer.itineraries[1][1]
        dep == first_leg.departure.at
        arr == first_leg.arrival.at
    IN  [date |-> split(dep, "T")[1],
         departure_time |-> Prefix(split(dep, "T")[2], 5),
         arrival_time |-> Prefix(split(arr, "T")[2], 5),
         origin |-> first_leg.departure.iataCode,
         destination |-> first_leg.arrival.iataCode,
         airline |-> first_leg.carrierCode,
         price |-> Str(offer.grandTotal) \o <<" ">> \o currency,
         link |-> <<>>]

\* lines 50-70: the loop over data["data"]; IndexError when itineraries[0]["segments"]
\* is empty (indexing [0] of an empty list)
RECURSIVE Normalize(_, _)
Normalize(offers, currency) ==
    IF offers = <<>> THEN Returned(<<>>)
    ELSE LET offer == Head(offers)
         IN  IF offer.itineraries = <<>> THEN Normalize(Tail(offers), currency)
             ELSE IF offer.itineraries[1] = <<>> THEN Raised(IndexError)
             ELSE LET tail == Normalize(Tail(offers), currency)
                  IN  IF tail.raised THEN tail
                      ELSE Returned(<<Row(offer, currency)>> \o tail.value)

\* lines 33-43: the query; returnDate is NoDate when the key is left out.  A
\* date stays a day number here (isoformat only prints it).
SearchParams(args, max_results) ==
    [originLocationCode |-> args.origin,
     destinationLocationCode |-> args.destination,
     departureDate |-> args.date_from,
     returnDate |-> IF args.date_to # NoDate /\ args.date_to # args.date_from
                    THEN args.date_to ELSE NoDate,
     adults |-> args.adults,
     currencyCode |-> args.currency,
     max |-> max_results]

\* the clock; it is read on entry to _auth (line 14), when the token response
\* is there (line 25) and by handle for today's date (line 185), so it moves
\* between requests and while the token request is in flight
Tick ==
    /\ now < MaxClock
    /\ (pc = "idle" \/ tpc = "auth_wait")
    /\ now' = now + TickSeconds
    /\ UNCHANGED <<fnVars, handleVars, tpc, token, exp, params, data, tool_out>>

\* _auth, line 14-15: the cached token, no request
AuthCached ==
    /\ tpc = "auth"
    /\ TokenFresh(token, exp, now)
    /\ tpc' = "get"
    /\ UNCHANGED <<fnVars, handleVars, token, exp, now, params, data, tool_out>>

\* _auth, line 16-21: the token request is sent
AuthSend ==
    /\ tpc = "auth"
    /\ ~TokenFresh(token, exp, now)
    /\ tpc' = "auth_wait"
    /\ calls' = Append(calls, "POST /v1/security/oauth2/token")
    /\ UNCHANGED <<fnVars, pc, user_text, want_translation, target_lang, intent,
                   tool_results, tool_note, dest_label, base_reply, translated,
                   search_args, gen_text, tr_input, raised,
                   token, exp, now, params, data, tool_out>>

AuthErrors ==
    { <<"ConnectionError">>, <<"HTTPError: 401 Client Error">>,
      <<"JSONDecodeError">>, <<"KeyError: 'access_token'">> }

\* _auth, lines 17-24: the request, raise_for_status, r.json() or
\* data["access_token"] raises; nothing was assigned yet
AuthFails ==
    /\ tpc = "auth_wait"
    /\ \E e \in AuthErrors : tool_out' = Raised(e)
    /\ tpc' = "exc"
    /\ UNCHANGED <<fnVars, handleVars, token, exp, now, params, data>>

\* _auth, lines 22-26: the token and its expiry are stored
AuthOk ==
    /\ tpc = "auth_wait"
    /\ \E t \in Tokens, ei \in ExpiresInChoices \cup {DefaultExpiresIn} :
           /\ token' = t
           /\ exp' = now + ei
    /\ tpc' = "get"
    /\ UNCHANGED <<fnVars, handleVars, now, params, data, tool_out>>

\* _auth, lines 24-25: the response carries access_token, but int() of its
\* expires_in raises (null, or not a number): line 24 has assigned the token,
\* line 25 never assigns the expiry
AuthBadExpiry ==
    /\ tpc = "auth_wait"
    /\ \E t \in Tokens : token' = t
    /\ tool_out' = Raised(<<"ValueError: invalid literal for int()">>)
    /\ tpc' = "exc"
    /\ UNCHANGED <<fnVars, handleVars, exp, now, params, data>>

\* search, lines 46-47: the offers request fails
GetFails ==
    /\ tpc = "get"
    /\ calls' = Append(calls, "GET /v2/shopping/flight-offers")
    /\ params' = SearchParams(search_args, 10)
    /\ \E e \in {<<"ReadTimeout">>, <<"HTTPError: 400 Client Error">>} : tool_out' = Raised(e)
    /\ tpc' = "exc"
    /\ UNCHANGED <<fnVars, pc, user_text, want_translation, target_lang, intent,
                   tool_results, tool_note, dest_label, base_reply, translated,
                   search_args, gen_text, tr_input, raised,
                   token, exp, now, data>>

\* search, lines 46-70: the offers request answers and the offers are normalized
GetOk ==
    /\ tpc = "get"
    /\ calls' = Append(calls, "GET /v2/shopping/flight-offers")
    /\ params' = SearchParams(search_args, 10)
    /\ \E d \in RawResponses :
           /\ data' = <<d>>
           /\ tool_out' = Normalize(d, search_args.currency)
           /\ tpc' = IF tool_out'.raised THEN "exc" ELSE "ret"
    /\ UNCHANGED <<fnVars, pc, user_text, want_translation, target_lang, intent,
                   tool_results, tool_note, dest_label, base_reply, translated,
                   search_args, gen_text, tr_input, raised,
                   token, exp, now>>

(***************************************************************************)
(* Orchestrator.handle                                                     *)
(***************************************************************************)
\* dt.date.today() as a day number: day 1 at clock 0
Today(t) == 1 + t \div (24 * 60 * 60)

FlightSummaries == <<"F","l","i","g","h","t"," ","s","u","m","m","a","r","i","e","s">>

sys_prompt == <<"You are a travel planning assistant. If the user asked for flights, summarize options briefly. Include links if available.">>

\* lines 211: one bullet of the summary ("u2192" is the arrow, "u2014" the dash)
Bullet(r) ==
    <<"-", " ">> \o r.date \o <<" ">> \o r.departure_time \o <<" ">> \o r.origin
        \o <<" ", "u2192", " ">> \o r.destination \o <<" ", "u2014", " ">> \o Str(r.airline)
        \o <<" ", "u2014", " ">> \o r.price

\* "\n".join(parts)
RECURSIVE JoinLF(_)
JoinLF(parts) ==
    IF parts = <<>> THEN <<>>
    ELSE IF Len(parts) = 1 THEN parts[1]
    ELSE parts[1] \o <<"LF">> \o JoinLF(Tail(parts))

\* lines 203-215: the conversation given to the reply generation
messages(text, results) ==
    LET base == << [role |-> "system", content |-> sys_prompt],
                   [role |-> "user", content |-> text] >>
        shown == Prefix(results, 5)
        bullets == JoinLF([i \in 1..Len(shown) |-> Bullet(shown[i])])
    IN  IF results # <<>>
        THEN Append(base, [role |-> "system",
                           content |-> FlightSummaries \o <<":", "LF">> \o bullets])
        ELSE base

\* what GPTAgent.chat can return: the provider's text, which may or may not
\* mention the summary block, or the local mock's echo of the last message
GenTexts(conversation) ==
    { <<"O","K">>,
      <<"S","e","e"," ">> \o FlightSummaries,
      <<"(Local GPT mock) You said: ">> \o conversation[Len(conversation)].content }

PointerSentence == <<"LF", "LF", "(See the options listed above.)">>

SearchFailedNote(e) == <<"Flight search failed: ">> \o e

\* a plausible slip: the note is recorded but never appended
PostProcess_nonote(generated, results, note) ==
    IF results # <<>> /\ ~Contains(generated, FlightSummaries)
    THEN generated \o PointerSentence
    ELSE generated

\* lines 219-222: the pointer sentence and the note appended to the reply
PostProcess(generated, results, note) ==
    LET pointed == IF results # <<>> /\ ~Contains(generated, FlightSummaries)
                   THEN generated \o PointerSentence
                   ELSE generated
    IN  IF ~Falsy(note) THEN pointed \o <<"LF", "LF", "Note: ">> \o note ELSE pointed

\* a plausible slip: the translation runs whatever the flag says
ShouldTranslate_always(want) == TRUE

\* line 225
ShouldTranslate(want) == want

\* a plausible slip: the raw generated text is translated, not the finished reply
TranslateInput_raw(reply, generated) == generated

\* line 226: the text handed to ClaudeAgent.translate
TranslateInput(reply, generated) == reply

\* ClaudeAgent.translate: the provider's translation, or the local mock's
TranslationOf(text, lang) == <<"[", lang, "] ">> \o text

TargetLangs == {"en", "de"}

\* the messages handle is given
HandleMessages ==
    { <<"h","e","l","l","o">>,
      <<"P","a","r","i","s">>,
      <<"f","l","y"," ","u0130","s","t","a","n","b","u","l">>,
      <<"f","l","y"," ","P","a","r","i","s">>,
      <<"f","l","y"," ","i","z","m","i","r"," ","L","o","n","d","r","a"," ",
        "1","5"," ","e","y","l","u","l">>,
      <<"u","u00E7"," ","b","e","r","l","i","n"," ","1","5"," ","e","y","l","u","l",
        " ","-"," ","3"," ","m","a","y">> }

\* line 170: every message with every answer of dateparser, parsed
ParsedMessages ==
    UNION {{[msg |-> m, intent |-> parse_user_message(m, dp)] :
               dp \in DateAnswers(m, Dates)} : m \in HandleMessages}

\* lines 170-198 up to the call of self.flights.search
HandleBegin ==
    /\ pc = "idle" /\ tpc = "idle"
    /\ \E parsed \in ParsedMessages, want \in BOOLEAN, lang \in TargetLangs :
           LET msg == parsed.msg
               it == parsed.intent
               orig_code == to_iata(it.origin, IST)
               dest_code == to_iata(it.destination, LON)
               date_from == IF it.date_from # NoDate THEN it.date_from ELSE Today(now) + 7
               date_to == IF it.date_to # NoDate THEN it.date_to ELSE date_from
           IN  /\ user_text' = msg
               /\ want_translation' = want
               /\ target_lang' = lang
               /\ intent' = it
               /\ tool_results' = <<>>
               /\ IF it.intent = "flight_search"
                  THEN /\ dest_label' = IF ~Falsy(it.destination) THEN it.destination
                                        ELSE DictGet(IATA_TO_CITY, dest_code, dest_code)
                       /\ IF Falsy(dest_code)
                          THEN /\ tool_note' = <<"Could not resolve destination. Please specify a city/airport (IATA code).">>
                               /\ pc' = "generate"
                               /\ UNCHANGED <<search_args, calls, tpc>>
                          ELSE /\ tool_note' = None
                               /\ search_args' = [origin |-> orig_code, destination |-> dest_code,
                                                  date_from |-> date_from, date_to |-> date_to,
                                                  adults |-> it.adults, currency |-> it.currency]
                               /\ calls' = <<"search">>
                               /\ pc' = "search"
                               /\ tpc' = "auth"
                  ELSE /\ dest_label' = None
                       /\ tool_note' = None
                       /\ pc' = "generate"
                       /\ UNCHANGED <<search_args, calls, tpc>>
    /\ UNCHANGED <<fnVars, base_reply, translated, gen_text, tr_input, raised,
                   token, exp, now, params, data, tool_out>>

\* line 188: search returned its rows
SearchReturns ==
    /\ pc = "search" /\ tpc = "ret"
    /\ tool_results' = tool_out.value
    /\ pc' = "generate"
    /\ tpc' = "idle"
    /\ data' = <<>>
    /\ UNCHANGED <<fnVars, user_text, want_translation, target_lang, intent, tool_note,
                   dest_label, base_reply, translated, search_args, gen_text, tr_input,
                   raised, calls, token, exp, now, params, tool_out>>

\* lines 196-197: search raised, the exception becomes the note
SearchRaises ==
    /\ pc = "search" /\ tpc = "exc"
    /\ tool_note' = SearchFailedNote(tool_out.value)
    /\ pc' = "generate"
    /\ tpc' = "idle"
    /\ data' = <<>>
    /\ UNCHANGED <<fnVars, user_text, want_translation, target_lang, intent, tool_results,
                   dest_label, base_reply, translated, search_args, gen_text, tr_input,
                   raised, calls, token, exp, now, params, tool_out>>

\* lines 199-224: the reply is generated and finished
Generate ==
    /\ pc = "generate"
    /\ calls' = Append(calls, "generate")
    /\ \E g \in GenTexts(messages(user_text, tool_results)) :
           /\ gen_text' = g
           /\ base_reply' = PostProcess(g, tool_results, tool_note)
    /\ translated' = None
    /\ pc' = IF ShouldTranslate(want_translation) THEN "translate" ELSE "done"
    /\ UNCHANGED <<fnVars, user_text, want_translation, target_lang, intent, tool_results,
                   tool_note, dest_label, search_args, tr_input, raised, toolVars>>

\* line 217: GPTAgent.chat raises; handle does not catch it
GenerateRaises ==
    /\ pc = "generate"
    /\ calls' = Append(calls, "generate")
    /\ raised' = <<"GenerationFailed">>
    /\ pc' = "raised"
    /\ UNCHANGED <<fnVars, user_text, want_translation, target_lang, intent, tool_results,
                   tool_note, dest_label, base_reply, translated, search_args, gen_text,
                   tr_input, toolVars>>

\* lines 225-228: the finished reply is translated
Translate ==
    /\ pc = "translate"
    /\ calls' = Append(calls, "translate")
    /\ tr_input' = TranslateInput(base_reply, gen_text)
    /\ translated' = TranslationOf(tr_input', target_lang)
    /\ pc' = "done"
    /\ UNCHANGED <<fnVars, user_text, want_translation, target_lang, intent, tool_results,
                   tool_note, dest_label, base_reply, search_args, gen_text, raised,
                   toolVars>>

\* line 226: ClaudeAgent.translate raises; handle does not catch it
TranslateRaises ==
    /\ pc = "translate"
    /\ calls' = Append(calls, "translate")
    /\ tr_input' = TranslateInput(base_reply, gen_text)
    /\ raised' = <<"TranslationFailed">>
    /\ pc' = "raised"
    /\ UNCHANGED <<fnVars, user_text, want_translation, target_lang, intent, tool_results,
                   tool_note, dest_label, base_reply, translated, search_args, gen_text,
                   toolVars>>

\* handle is over (line 228, or the exception left it): its locals are gone,
\* the tool keeps its token
Return ==
    /\ pc \in {"done", "raised"}
    /\ pc' = "idle" /\ user_text' = None /\ want_translation' = FALSE /\ target_lang' = "en"
    /\ intent' = NoIntent /\ tool_results' = <<>> /\ tool_note' = None
    /\ dest_label' = None /\ base_reply' = None /\ translated' = None
    /\ search_args' = NoArgs /\ gen_text' = None /\ tr_input' = None
    /\ raised' = None /\ calls' = <<>>
    /\ tool_out' = NoOut /\ params' = NoParams
    /\ UNCHANGED <<fnVars, tpc, token, exp, now, data>>

Init == FnIdle /\ HandleIdle /\ ToolInit

Next ==
    \/ HandleBegin \/ SearchReturns \/ SearchRaises
    \/ Generate \/ GenerateRaises \/ Translate \/ TranslateRaises \/ Return
    \/ Tick \/ AuthCached \/ AuthSend \/ AuthFails \/ AuthOk \/ AuthBadExpiry
    \/ GetFails \/ GetOk

Spec == Init /\ [][Next]_vars

(***************************************************************************)
(* Claims about Orchestrator.handle and AmadeusFlightTool (Spec)           *)
(***************************************************************************)
IsHandleCall(c) == c \in {"search", "generate", "translate"}
IsRequest(c) == c \in {"POST /v1/security/oauth2/token", "GET /v2/shopping/flight-offers"}

\* the capabilities handle has invoked so far, in order
HandleCalls == SelectSeq(calls, IsHandleCall)

Count(c, s) == Cardinality({i \in 1..Len(s) : s[i] = c})

\* handle caught an exception of self.flights.search
SearchFailed == pc # "idle" /\ pc # "search" /\ tool_out.raised

\* C1: when the flight search of a flight_search intent raises, handle goes on:
\* the exception never leaves handle, the reply generation is invoked, the
\* offers are empty and the reply is the generated text followed by the note
\* "Flight search failed: <error detail>".
C1_SearchFailureBecomesNote ==
    SearchFailed =>
        /\ intent.intent = "flight_search"
        /\ tool_results = <<>>
        /\ raised # tool_out.value
        /\ pc \in {"generate", "translate", "done", "raised"}
        /\ pc # "generate" => Count("generate", calls) = 1
        /\ pc \in {"translate", "done"} =>
               base_reply = gen_text \o <<"LF", "LF", "Note: ">>
                                     \o <<"Flight search failed: ">> \o tool_out.value

\* handle returned after the token request was refused
C1_Witness ==
    /\ pc = "done"
    /\ SearchFailed
    /\ tool_out.value = <<"HTTPError: 401 Client Error">>
    /\ Len(base_reply) > Len(gen_text)

\* C2: with want_translation false the translation is never invoked and the
\* translated reply is None, whatever the intent, the search outcome and the
\* generated text.
C2_NoTranslationUnlessWanted ==
    (pc # "idle" /\ ~want_translation) =>
        /\ pc # "translate"
        /\ Count("translate", calls) = 0
        /\ tr_input = None
        /\ pc = "done" => translated = None

\* handle returned offers, untranslated
C2_Witness ==
    /\ pc = "done"
    /\ ~want_translation
    /\ tool_results # <<>>
    /\ translated = None

HasSegments(offer) ==
    \E i \in 1..Len(offer.itineraries) : offer.itineraries[i] # <<>>

\* C7: whatever the upstream response, search does not fail over an offer
\* without itinerary segments: it returns one row per offer that has segments,
\* in upstream order, each row built from the first segment of the first
\* itinerary, and the offers without segments are left out.
C7_SegmentlessOffersSkipped ==
    data # <<>> =>
        LET survivors == SelectSeq(data[1], HasSegments)
        IN  /\ ~tool_out.raised
            /\ Len(tool_out.value) = Len(survivors)
            /\ Len(tool_out.value) <= Len(data[1])
            /\ \A i \in 1..Len(survivors) :
                   LET leg == survivors[i].itineraries[1][1]
                   IN  /\ tool_out.value[i].origin = leg.departure.iataCode
                       /\ tool_out.value[i].destination = leg.arrival.iataCode
                       /\ tool_out.value[i].airline = leg.carrierCode
                       /\ tool_out.value[i].date = split(leg.departure.at, "T")[1]

\* C8: _auth sends the token request exactly when no token is cached or the
\* clock is at or past expiry - 60, and uses the cached token with no request
\* otherwise; a token request that fails leaves _token and _exp as they were.
C8_AuthRequestsAndFailure ==
    [][ /\ (tpc = "auth" /\ tpc' # "auth") =>
               /\ (tpc' = "auth_wait") <=> (Falsy(token) \/ now >= exp - AuthMargin)
               /\ tpc' = "auth_wait" =>
                      calls' = Append(calls, "POST /v1/security/oauth2/token")
               /\ tpc' # "auth_wait" =>
                      tpc' = "get" /\ calls' = calls /\ token' = token /\ exp' = exp
        /\ (tpc = "auth_wait" /\ tpc' = "exc") => (token' = token /\ exp' = exp)
      ]_vars

\* C9: within one handle invocation the calls are search, then generation,
\* then translation, each at most once: search only for a flight_search
\* intent and over (no request after) when generation starts, generation once,
\* translation only when wanted, after generation returned, on the finished
\* reply (generated text, pointer sentence, note).
C9_CallsInOrder ==
    /\ HandleCalls \in { <<>>, <<"search">>, <<"search", "generate">>,
                         <<"search", "generate", "translate">>,
                         <<"generate">>, <<"generate", "translate">> }
    /\ Count("search", calls) = 1 => intent.intent = "flight_search"
    /\ Count("POST /v1/security/oauth2/token", calls) <= 1
    /\ Count("GET /v2/shopping/flight-offers", calls) <= 1
    /\ \A i, j \in 1..Len(calls) :
           (IsRequest(calls[i]) /\ calls[j] \in {"generate", "translate"}) => i < j
    /\ Count("generate", calls) = 1 => tpc = "idle"
    /\ pc \in {"translate", "done"} => Count("generate", calls) = 1
    /\ pc = "done" => Count("translate", calls) = (IF want_translation THEN 1 ELSE 0)
    /\ Count("translate", calls) = 1 =>
           /\ want_translation
           /\ gen_text # None
           /\ tr_input = gen_text
                  \o (IF tool_results # <<>> /\ ~Contains(gen_text, FlightSummaries)
                      THEN PointerSentence ELSE <<>>)
                  \o (IF tool_note # None THEN <<"LF", "LF", "Note: ">> \o tool_note
                      ELSE <<>>)

\* all three calls were made and the translation got the pointer sentence
C9_Witness ==
    /\ pc = "done"
    /\ HandleCalls = <<"search", "generate", "translate">>
    /\ tool_results # <<>>
    /\ Contains(tr_input, PointerSentence)

\* C10: the date_to handle passes to the gateway is never before the date_from
\* it passes, so a returnDate sent upstream never precedes the departureDate.
C10_ReturnNotBeforeDeparture ==
    /\ Count("search", calls) = 1 => search_args.date_to >= search_args.date_from
    /\ params.returnDate # NoDate => params.returnDate >= params.departureDate

====
